---- MODULE Spec2Model ----
(***************************************************************************)
(* A model of the CHIP-8 interpreter core (src/src/chip8.rs) as driven by  *)
(* the run loop of src/src/main.rs.  The machine is the record chip8, with *)
(* the fields of struct Chip8 under their source names.  A panic of the    *)
(* Rust code (index out of bounds, arithmetic overflow in a build with     *)
(* overflow checks) ends the process: it is recorded in panicked, with the *)
(* mutations the handler had made before it.                               *)
(***************************************************************************)
EXTENDS Integers, Sequences, FiniteSets, TLC

VARIABLES
    chip8,            \* the Chip8 instance main.rs owns
    file,             \* the ROM file at rom_path: is it readable, and its bytes
    load_result,      \* what Chip8::load returned to main: "none" before the call
    panicked,         \* TRUE once a call has panicked (the process is gone)
    last,             \* the last of load and emulate that main called, and what it logged
    calls,            \* history: the calls not yet returned from, innermost last
    steps             \* history: the emulate calls made so far, counted up to MaxSteps

vars == <<chip8, file, load_result, panicked, last, calls, steps>>

-----------------------------------------------------------------------------
(* Constants of chip8.rs *)

XPX == 64
YPX == 32
MEM_SIZE == 4096
FONTSET_SIZE == 80
DISPLAY_SIZE == 256
STACK_SIZE == 96
REGISTER_NUM == 16
KEY_NUM == 16
STACK_LAYERS == 16
PC_START == 512

\* the ranges of u8 and u16
U8 == 256
U16 == 65536

CHIP8_FONTSET == <<
    \hF0, \h90, \h90, \h90, \hF0,  \* 0
    \h20, \h60, \h20, \h20, \h70,  \* 1
    \hF0, \h10, \hF0, \h80, \hF0,  \* 2
    \hF0, \h10, \hF0, \h10, \hF0,  \* 3
    \h90, \h90, \hF0, \h10, \h10,  \* 4
    \hF0, \h80, \hF0, \h10, \hF0,  \* 5
    \hF0, \h80, \hF0, \h90, \hF0,  \* 6
    \hF0, \h10, \h20, \h40, \h40,  \* 7
    \hF0, \h90, \hF0, \h90, \hF0,  \* 8
    \hF0, \h90, \hF0, \h10, \hF0,  \* 9
    \hF0, \h90, \hF0, \h90, \h90,  \* A
    \hE0, \h90, \hE0, \h90, \hE0,  \* B
    \hF0, \h80, \h80, \h80, \hF0,  \* C
    \hE0, \h90, \h90, \h90, \hE0,  \* D
    \hF0, \h80, \hF0, \h80, \hF0,  \* E
    \hF0, \h80, \hF0, \h80, \h80   \* F
>>

-----------------------------------------------------------------------------
(* Bit operations of the source, on naturals *)

RECURSIVE BitAnd(_, _)
BitAnd(a, b) ==
    IF a = 0 \/ b = 0 THEN 0
    ELSE (a % 2) * (b % 2) + 2 * BitAnd(a \div 2, b \div 2)

RECURSIVE BitOr(_, _)
BitOr(a, b) ==
    IF a = 0 THEN b
    ELSE IF b = 0 THEN a
    ELSE (IF a % 2 = 1 \/ b % 2 = 1 THEN 1 ELSE 0) + 2 * BitOr(a \div 2, b \div 2)

RECURSIVE BitXor(_, _)
BitXor(a, b) ==
    IF a = 0 THEN b
    ELSE IF b = 0 THEN a
    ELSE ((a + b) % 2) + 2 * BitXor(a \div 2, b \div 2)

\* a >> n
Shr(a, n) == a \div (2 ^ n)

\* a << n, in a type of the given range (the high bits are lost)
Shl(a, n, range) == (a * (2 ^ n)) % range

Min(S) == CHOOSE m \in S : \A n \in S : m <= n

-----------------------------------------------------------------------------
(* The machine: Chip8::new, load, clear_keys, register_key *)

\* the value last holds where no key was got, or no opcode was fetched
None == -1

\* a call that returned with the machine c / that panicked leaving the machine c
Done(c) == [chip8 |-> c, panicked |-> FALSE]
Panic(c) == [chip8 |-> c, panicked |-> TRUE]

New ==
    [ memory |-> [a \in 0..(MEM_SIZE - 1) |->
                     IF a < FONTSET_SIZE THEN CHIP8_FONTSET[a + 1] ELSE 0],
      register |-> [i \in 0..(REGISTER_NUM - 1) |-> 0],
      program_counter |-> PC_START,
      index_register |-> 0,
      display |-> [x \in 0..(XPX - 1) |-> [y \in 0..(YPX - 1) |-> 0]],
      delay_timer |-> 0,
      sound_timer |-> 0,
      stack |-> [i \in 0..(STACK_LAYERS - 1) |-> 0],
      stack_pointer |-> 0,
      key |-> [i \in 0..(KEY_NUM - 1) |-> 0],
      wait_for_key |-> FALSE,
      wait_for_key_register |-> 0 ]

\* a length check against the whole memory
DoesNotFitWholeMemory(binary_file) == Len(binary_file) > MEM_SIZE

\* the length check of load: TRUE when the program is rejected
DoesNotFit(binary_file) ==
    Len(binary_file) > MEM_SIZE - (FONTSET_SIZE + DISPLAY_SIZE + STACK_SIZE)

\* a copy loop that starts at address 0
CopyProgramAtZero(c, binary_file) ==
    LET written == [c EXCEPT !.memory =
                       [a \in 0..(MEM_SIZE - 1) |->
                           IF a < Len(binary_file)
                           THEN binary_file[a + 1]
                           ELSE c.memory[a]]]
    IN  IF Len(binary_file) > MEM_SIZE
        THEN Panic(written)
        ELSE Done(written)

\* the copy loop of load: byte i goes to memory[PC_START + i], and the first
\* i with PC_START + i outside the memory panics, the bytes before it written
CopyProgram(c, binary_file) ==
    LET written == [c EXCEPT !.memory =
                       [a \in 0..(MEM_SIZE - 1) |->
                           IF a >= PC_START /\ a - PC_START < Len(binary_file)
                           THEN binary_file[a - PC_START + 1]
                           ELSE c.memory[a]]]
    IN  IF PC_START + Len(binary_file) > MEM_SIZE
        THEN Panic(written)
        ELSE Done(written)

ClearedKeys(c) == [c EXCEPT !.key = [i \in 0..(KEY_NUM - 1) |-> 0]]

RegisteredKey(c, k) ==
    IF k >= KEY_NUM THEN Panic(c) ELSE Done([c EXCEPT !.key[k] = 1])

-----------------------------------------------------------------------------
(* emulate: the key wait, the fetch, the timers *)

PressedKeys(c) == {keycode \in 0..(KEY_NUM - 1) : c.key[keycode] = 1}

\* the poll leaving its loop after the first key state, pressed or not
PolledFirstKeyOnly(c) ==
    IF c.wait_for_key /\ c.key[0] = 1
    THEN [c EXCEPT !.wait_for_key = FALSE,
                   !.register[c.wait_for_key_register] = 0]
    ELSE c

\* the poll releasing the key it takes
PolledConsuming(c) ==
    IF c.wait_for_key /\ PressedKeys(c) # {}
    THEN [c EXCEPT !.wait_for_key = FALSE,
                   !.register[c.wait_for_key_register] = Min(PressedKeys(c)),
                   !.key[Min(PressedKeys(c))] = 0]
    ELSE c

\* the poll with the last pressed key taken for the first
PolledHighest(c) ==
    IF c.wait_for_key /\ PressedKeys(c) # {}
    THEN [c EXCEPT !.wait_for_key = FALSE,
                   !.register[c.wait_for_key_register] =
                       CHOOSE m \in PressedKeys(c) : \A n \in PressedKeys(c) : m >= n]
    ELSE c

\* lines 149-158: in the wait-state, the first pressed key ends the wait
\* and goes to the waiting register
Polled(c) ==
    IF c.wait_for_key /\ PressedKeys(c) # {}
    THEN [c EXCEPT !.wait_for_key = FALSE,
                   !.register[c.wait_for_key_register] = Min(PressedKeys(c))]
    ELSE c

\* the test of line 161 made on the flag as it was before the poll
WasWaiting(c) == c.wait_for_key

\* lines 160-163: after the poll, emulate returns if the machine still waits
StillWaiting(c) == Polled(c).wait_for_key

\* the key the poll logs ("got key"), None when it got none
GotKey(c) ==
    IF c.wait_for_key /\ PressedKeys(c) # {} THEN Min(PressedKeys(c)) ELSE None

\* the two bytes of the opcode are inside the memory
CanFetch(c) == c.program_counter + 1 < MEM_SIZE

\* the opcode with its second byte taken for the high one
OpcodeLittleEndian(c) ==
    BitOr(Shl(c.memory[c.program_counter + 1], 8, U16),
          c.memory[c.program_counter])

\* (memory[pc] as u16) << 8 | (memory[pc + 1] as u16)
Opcode(c) ==
    BitOr(Shl(c.memory[c.program_counter], 8, U16),
          c.memory[c.program_counter + 1])

\* a decrement of the u8 that is not guarded by t > 0
WrappingDecrement(t) == (t + U8 - 1) % U8

DecrementedTimer(t) == IF t > 0 THEN t - 1 ELSE t

\* lines 177-185: the program counter passes the opcode, both timers tick
Advanced(c) ==
    [c EXCEPT !.program_counter = @ + 2,
              !.delay_timer = DecrementedTimer(@),
              !.sound_timer = DecrementedTimer(@)]

-----------------------------------------------------------------------------
(* emulate: the operands and the instructions, each on the machine c the   *)
(* fetch left (program counter advanced, timers ticked)                    *)

RegX(opcode) == Shr(BitAnd(opcode, \h0F00), 8)
RegY(opcode) == Shr(BitAnd(opcode, \h00F0), 4)
Address(opcode) == BitAnd(opcode, \h0FFF)
Constant(opcode) == BitAnd(opcode, \h00FF)
Height(opcode) == BitAnd(opcode, \h000F)

\* trace!("...", address - PC_START as u16): the subtraction is evaluated when
\* trace logging is on, and overflows below PC_START
TraceOverflows(address, overflow_checks, tracing) ==
    tracing /\ overflow_checks /\ address < PC_START

\* 00EE that leaves the program counter alone when no call is open
ReturnChecked(c) ==
    IF c.stack_pointer >= STACK_LAYERS THEN Panic(c)
    ELSE IF c.stack_pointer # 0
         THEN Done([c EXCEPT !.program_counter = c.stack[c.stack_pointer],
                             !.stack_pointer = @ - 1])
         ELSE Done(c)

\* 00EE
Return(c) ==
    IF c.stack_pointer >= STACK_LAYERS THEN Panic(c)
    ELSE LET jumped == [c EXCEPT !.program_counter = c.stack[c.stack_pointer]]
         IN  IF c.stack_pointer # 0
             THEN Done([jumped EXCEPT !.stack_pointer = @ - 1])
             ELSE Done(jumped)

\* 00E0
ClearedDisplay(c) ==
    Done([c EXCEPT !.display = [x \in 0..(XPX - 1) |-> [y \in 0..(YPX - 1) |-> 0]]])

\* 1nnn
Jumped(c, opcode, overflow_checks, tracing) ==
    LET jump_address == Address(opcode)
        jumped == [c EXCEPT !.program_counter = jump_address]
    IN  IF TraceOverflows(jump_address, overflow_checks, tracing) THEN Panic(jumped) ELSE Done(jumped)

\* 2nnn storing the address of the call itself, not of what follows it
CalledStoringCallAddress(c, opcode, overflow_checks, tracing) ==
    LET deeper == [c EXCEPT !.stack_pointer = @ + 1]
    IN  IF deeper.stack_pointer >= STACK_LAYERS
        THEN Panic(deeper)
        ELSE Done([deeper EXCEPT
                      !.stack[deeper.stack_pointer] = (c.program_counter - 2) % U16,
                      !.program_counter = Address(opcode)])

\* 2nnn
Called(c, opcode, overflow_checks, tracing) ==
    LET subroutine_address == Address(opcode)
        deeper == [c EXCEPT !.stack_pointer = @ + 1]
    IN  IF deeper.stack_pointer >= STACK_LAYERS
        THEN Panic(deeper)
        ELSE LET called == [deeper EXCEPT
                                !.stack[deeper.stack_pointer] = c.program_counter % U16,
                                !.program_counter = subroutine_address]
             IN  IF TraceOverflows(subroutine_address, overflow_checks, tracing)
                 THEN Panic(called)
                 ELSE Done(called)

\* 3xkk
SkippedIfEqual(c, opcode) ==
    IF c.register[RegX(opcode)] = Constant(opcode) % U8
    THEN Done([c EXCEPT !.program_counter = @ + 2])
    ELSE Done(c)

\* 4xkk
SkippedIfNotEqual(c, opcode) ==
    IF c.register[RegX(opcode)] # Constant(opcode) % U8
    THEN Done([c EXCEPT !.program_counter = @ + 2])
    ELSE Done(c)

\* 6xkk
Assigned(c, opcode) ==
    Done([c EXCEPT !.register[RegX(opcode)] = BitAnd(opcode, \h00FF) % U8])

\* 7xkk
AddedConstantWithCarry(c, opcode) ==
    LET tmp_register == c.register[RegX(opcode)] + BitAnd(opcode, \h00FF)
    IN  Done([[c EXCEPT !.register[15] = IF tmp_register > 255 THEN 1 ELSE 0]
                 EXCEPT !.register[RegX(opcode)] = (tmp_register % \h100) % U8])

AddedConstant(c, opcode) ==
    LET tmp_register == c.register[RegX(opcode)] + BitAnd(opcode, \h00FF)
    IN  Done([c EXCEPT !.register[RegX(opcode)] = (tmp_register % \h100) % U8])

\* 8xy0
Moved(c, opcode) ==
    Done([c EXCEPT !.register[RegX(opcode)] = c.register[RegY(opcode)]])

\* 8xy1
Ored(c, opcode) ==
    Done([c EXCEPT !.register[RegX(opcode)] = BitOr(@, c.register[RegY(opcode)])])

\* 8xy2
Anded(c, opcode) ==
    Done([c EXCEPT !.register[RegX(opcode)] = BitAnd(@, c.register[RegY(opcode)])])

\* 8xy3
Xored(c, opcode) ==
    Done([c EXCEPT !.register[RegX(opcode)] = BitXor(@, c.register[RegY(opcode)])])

\* 8xy4
AddedRegisterResettingFlag(c, opcode) ==
    LET first_register == RegX(opcode)
        second_register == RegY(opcode)
        res == c.register[first_register] + c.register[second_register]
    IN  Done([[c EXCEPT !.register[15] = IF res > 255 THEN 1 ELSE 0]
                 EXCEPT !.register[first_register] = BitAnd(res, 255) % U8])

AddedRegister(c, opcode) ==
    LET first_register == RegX(opcode)
        second_register == RegY(opcode)
        res == c.register[first_register] + c.register[second_register]
    IN  IF res > 255
        THEN Done([[c EXCEPT !.register[15] = 1]
                      EXCEPT !.register[first_register] = BitAnd(res, 255) % U8])
        ELSE Done([c EXCEPT !.register[first_register] = res % U8])

\* 8xy5: the flag is written first, and the u8 subtraction then reads the
\* registers again; below zero it panics with overflow checks and wraps without
SubtractedRegister(c, opcode, overflow_checks) ==
    LET first_register == RegX(opcode)
        second_register == RegY(opcode)
        flagged == [c EXCEPT !.register[15] =
                       IF c.register[second_register] > c.register[first_register]
                       THEN 0 ELSE 1]
        minuend == flagged.register[first_register]
        subtrahend == flagged.register[second_register]
    IN  IF minuend < subtrahend /\ overflow_checks
        THEN Panic(flagged)
        ELSE Done([flagged EXCEPT
                      !.register[first_register] = (minuend + U8 - subtrahend) % U8])

\* 8xy6
ShiftedRight(c, opcode) ==
    LET register_number == RegX(opcode)
        flagged == [c EXCEPT !.register[15] = BitAnd(c.register[register_number], 1)]
    IN  Done([flagged EXCEPT !.register[register_number] = Shr(@, 1)])

\* 8xyE
ShiftedLeft(c, opcode) ==
    LET register_number == RegX(opcode)
        flagged == [c EXCEPT !.register[15] =
                       Shr(BitAnd(c.register[register_number], 128), 7)]
    IN  Done([flagged EXCEPT !.register[register_number] = Shl(@, 1, U8)])

\* Annn
IndexSet(c, opcode) ==
    Done([c EXCEPT !.index_register = BitAnd(opcode, \h0FFF)])

\* a row whose columns past the right edge come back on the left
DrawnRowWrapping(c, x, i, px_row) ==
    LET set == {j \in 0..(XPX - 1) :
                   \E k \in 0..7 : /\ j = (x + k) % XPX
                                    /\ BitAnd(px_row, Shr(\h80, k)) # 0}
    IN  [c EXCEPT
            !.register[15] = IF \E j \in set : c.display[j][i] = 1 THEN 1 ELSE @,
            !.display = [j \in 0..(XPX - 1) |->
                            IF j \in set
                            THEN [c.display[j] EXCEPT ![i] = BitXor(@, 1)]
                            ELSE c.display[j]]]

\* a row whose set bits light the cells and never put them out
DrawnRowSetting(c, x, i, px_row) ==
    LET set == {j \in x..(x + 7) :
                   j < XPX /\ BitAnd(px_row, Shr(\h80, j - x)) # 0}
    IN  [c EXCEPT
            !.register[15] = IF \E j \in set : c.display[j][i] = 1 THEN 1 ELSE @,
            !.display = [j \in 0..(XPX - 1) |->
                            IF j \in set
                            THEN [c.display[j] EXCEPT ![i] = BitOr(@, 1)]
                            ELSE c.display[j]]]

\* one row of Dxyn: the bits of px_row on the columns x..x+7 of row i that are
\* on the screen; a set bit flips its pixel, and a lit pixel under it sets VF
DrawnRow(c, x, i, px_row) ==
    LET set == {j \in x..(x + 7) :
                   j < XPX /\ BitAnd(px_row, Shr(\h80, j - x)) # 0}
    IN  [c EXCEPT
            !.register[15] = IF \E j \in set : c.display[j][i] = 1 THEN 1 ELSE @,
            !.display = [j \in 0..(XPX - 1) |->
                            IF j \in set
                            THEN [c.display[j] EXCEPT ![i] = BitXor(@, 1)]
                            ELSE c.display[j]]]

\* the row loop of Dxyn from row y + d on: a row below the screen is skipped
\* before its sprite byte is read; the read is at index_register + d, a u16 sum
RECURSIVE DrawnRows(_, _, _, _, _, _)
DrawnRows(c, x, y, height, d, overflow_checks) ==
    IF d >= height THEN Done(c)
    ELSE IF y + d >= YPX THEN DrawnRows(c, x, y, height, d + 1, overflow_checks)
    ELSE LET sum == c.index_register + d
         IN  IF sum >= U16 /\ overflow_checks THEN Panic(c)
             ELSE IF sum % U16 >= MEM_SIZE THEN Panic(c)
             ELSE DrawnRows(DrawnRow(c, x, y + d, c.memory[sum % U16]),
                            x, y, height, d + 1, overflow_checks)

\* a draw that leaves the flag register as it finds it
DrawnKeepingFlag(c, opcode, overflow_checks) ==
    LET x == c.register[RegX(opcode)]
        y == c.register[RegY(opcode)]
    IN  DrawnRows(c, x, y, Height(opcode), 0, overflow_checks)

\* a draw that reads its coordinates before it clears the flag register
DrawnReadingFirst(c, opcode, overflow_checks) ==
    LET x == c.register[RegX(opcode)]
        y == c.register[RegY(opcode)]
    IN  DrawnRows([c EXCEPT !.register[15] = 0], x, y, Height(opcode), 0,
                  overflow_checks)

\* Dxyn: VF is cleared before the coordinates are read
Drawn(c, opcode, overflow_checks) ==
    LET cleared == [c EXCEPT !.register[15] = 0]
        x == cleared.register[RegX(opcode)]
        y == cleared.register[RegY(opcode)]
    IN  DrawnRows(cleared, x, y, Height(opcode), 0, overflow_checks)

\* Ex9E
SkippedIfKey(c, opcode) ==
    LET keycode == c.register[RegX(opcode)]
    IN  IF keycode >= KEY_NUM THEN Panic(c)
        ELSE IF c.key[keycode] = 1
        THEN Done([c EXCEPT !.program_counter = @ + 2])
        ELSE Done(c)

\* ExA1
SkippedIfNoKey(c, opcode) ==
    LET keycode == c.register[RegX(opcode)]
    IN  IF keycode >= KEY_NUM THEN Panic(c)
        ELSE IF c.key[keycode] # 1
        THEN Done([c EXCEPT !.program_counter = @ + 2])
        ELSE Done(c)

\* Fx07
DelayRead(c, opcode) ==
    Done([c EXCEPT !.register[RegX(opcode)] = c.delay_timer])

\* Fx0A
KeyAwaitedOnY(c, opcode) ==
    Done([c EXCEPT !.wait_for_key = TRUE,
                   !.wait_for_key_register = RegY(opcode)])

KeyAwaited(c, opcode) ==
    Done([c EXCEPT !.wait_for_key = TRUE,
                   !.wait_for_key_register = RegX(opcode)])

\* Fx15 with the tick of the timer after the instruction
DelaySetThenTicked(c, opcode) ==
    Done([c EXCEPT !.delay_timer = DecrementedTimer(c.register[RegX(opcode)])])

\* Fx15
DelaySet(c, opcode) ==
    Done([c EXCEPT !.delay_timer = c.register[RegX(opcode)]])

\* Fx18
SoundSet(c, opcode) ==
    Done([c EXCEPT !.sound_timer = c.register[RegX(opcode)]])

\* Fx1E: a u16 sum
IndexAdded(c, opcode, overflow_checks) ==
    LET sum == c.index_register + c.register[RegX(opcode)]
    IN  IF sum >= U16 /\ overflow_checks THEN Panic(c)
        ELSE Done([c EXCEPT !.index_register = sum % U16])

\* Fx29
FontAddressed(c, opcode) ==
    LET character == c.register[RegX(opcode)]
    IN  Done([c EXCEPT !.index_register = 5 * character])

\* the loop of Fx65 from register i on: for i in 0..registers
RECURSIVE FilledFrom(_, _, _, _)
FilledFrom(c, registers, i, overflow_checks) ==
    IF i >= registers THEN Done(c)
    ELSE LET sum == c.index_register + i
         IN  IF sum >= U16 /\ overflow_checks THEN Panic(c)
             ELSE IF sum % U16 >= MEM_SIZE THEN Panic(c)
             ELSE FilledFrom([c EXCEPT !.register[i] = c.memory[sum % U16]],
                             registers, i + 1, overflow_checks)

\* Fx65
Filled(c, opcode, overflow_checks) ==
    FilledFrom(c, RegX(opcode), 0, overflow_checks)

\* the match of emulate: the arm an opcode takes, "unknown" for the warn! arms
Decode(opcode) ==
    LET group == BitAnd(opcode, \hF000)
    IN  CASE group = \h0000 ->
               (CASE BitAnd(opcode, \hFFFF) = \h00EE -> "00EE"
                  [] BitAnd(opcode, \hFFFF) = \h00E0 -> "00E0"
                  [] OTHER -> "unknown")
          [] group = \h1000 -> "1nnn"
          [] group = \h2000 -> "2nnn"
          [] group = \h3000 -> "3xkk"
          [] group = \h4000 -> "4xkk"
          [] group = \h6000 -> "6xkk"
          [] group = \h7000 -> "7xkk"
          [] group = \h8000 ->
               (CASE BitAnd(opcode, \h000F) = \h0000 -> "8xy0"
                  [] BitAnd(opcode, \h000F) = \h0001 -> "8xy1"
                  [] BitAnd(opcode, \h000F) = \h0002 -> "8xy2"
                  [] BitAnd(opcode, \h000F) = \h0003 -> "8xy3"
                  [] BitAnd(opcode, \h000F) = \h0004 -> "8xy4"
                  [] BitAnd(opcode, \h000F) = \h0005 -> "8xy5"
                  [] BitAnd(opcode, \h000F) = \h0006 -> "8xy6"
                  [] BitAnd(opcode, \h000F) = \h000E -> "8xyE"
                  [] OTHER -> "unknown")
          [] group = \hA000 -> "Annn"
          [] group = \hD000 -> "Dxyn"
          [] group = \hE000 ->
               (CASE BitAnd(opcode, \h00FF) = \h009E -> "Ex9E"
                  [] BitAnd(opcode, \h00FF) = \h00A1 -> "ExA1"
                  [] OTHER -> "unknown")
          [] group = \hF000 ->
               (CASE BitAnd(opcode, \h00FF) = \h0007 -> "Fx07"
                  [] BitAnd(opcode, \h00FF) = \h000A -> "Fx0A"
                  [] BitAnd(opcode, \h00FF) = \h0015 -> "Fx15"
                  [] BitAnd(opcode, \h00FF) = \h0018 -> "Fx18"
                  [] BitAnd(opcode, \h00FF) = \h001E -> "Fx1E"
                  [] BitAnd(opcode, \h00FF) = \h0029 -> "Fx29"
                  [] BitAnd(opcode, \h00FF) = \h0065 -> "Fx65"
                  [] OTHER -> "unknown")
          [] OTHER -> "unknown"

-----------------------------------------------------------------------------
(* The ROM files the model loads *)

\* the bytes of a program given as a sequence of 16-bit instruction words
RECURSIVE Prog(_)
Prog(words) ==
    IF words = <<>> THEN <<>>
    ELSE <<Head(words) \div 256, Head(words) % 256>> \o Prog(Tail(words))

\* the deepest chain of nested calls a ROM of the model makes
MaxNesting == 16

\* the emulate calls of a run that are counted
MaxSteps == 4

\* 6005 700A, and nothing after it
RomEndToEnd == Prog(<<\h6005, \h700A>>)

\* n calls, each of the instruction after it, and then a jump to itself
RomCalls(n) ==
    Prog([k \in 1..n |-> \h2000 + PC_START + 2 * k] \o <<\h1000 + PC_START + 2 * n>>)

\* a subroutine at 0x206 that calls itself V0 times and returns from every level
RomRecursion(depth) ==
    Prog(<<\h6000 + depth, \h2206, \h1204,
           \h3000, \h120C, \h00EE, \h70FF, \h2206, \h00EE>>)

\* V0 := a, V1 := b, 8 0 1 op, and a jump to itself
RomAlu(op, a, b) == Prog(<<\h6000 + a, \h6100 + b, \h8010 + op, \h1206>>)

\* Fx0A on V3, one instruction after it, and a jump to itself
RomWait(follow) == Prog(<<\hF30A, follow, \h1204>>)

\* both timers set from V0, the delay read back, a key wait, an addition
RomTimers == Prog(<<\h6003, \hF015, \hF018, \hF107, \hF20A, \h7101, \h120C>>)

\* Fx65 on the bytes of the program itself, and at the end of the memory
RomFill == Prog(<<\hA200, \hF365, \hF065, \h1206>>)
RomFillEnd == Prog(<<\hAFFE, \hF365>>)

RomIndex == Prog(<<\hA123, \h60FF, \hF01E, \hF029, \h1208>>)

\* the key tests on key 3, and then on a register that holds no key code
RomKeys == Prog(<<\h6003, \hE09E, \h6101, \hE0A1, \h6201, \h6010, \hE09E>>)
RomKeysNot == Prog(<<\h60FF, \hE0A1>>)

\* the glyph 0 drawn twice at (60, 30), then the screen cleared
RomDraw == Prog(<<\hA000, \h603C, \h611E, \hD015, \hD015, \h00E0, \h120C>>)

\* opcodes that no arm of the match takes
RomUnknown ==
    Prog(<<\h5120, \h9120, \hB000, \hC0FF, \h8127, \hF033, \hF055, \hE000, \h1210>>)

RomSkips ==
    Prog(<<\h6005, \h3005, \h0000, \h4005, \h3006, \h4006, \h0000, \h120E>>)

\* a jump below PC_START, and a jump to the last word of the memory
RomJumpLow == Prog(<<\h11FE>>)
RomRunOff == Prog(<<\h1FFE>>)

\* two timers running over opcodes that no arm takes
RomUnknownTicking ==
    Prog(<<\h6002, \hF015, \hF018, \h5120, \hF033, \h0000, \h120C>>)

\* 200 + 100 sets the flag, and 44 + 100 after it has no carry
RomCarryKept == Prog(<<\h60C8, \h6164, \h8014, \h8014, \h1208>>)

\* the glyph 0 drawn three times at (x, y)
RomDrawAt(x, y) ==
    Prog(<<\hA000, \h6000 + x, \h6100 + y, \hD015, \hD015, \hD015, \h120C>>)

\* the glyph 0 drawn with the flag set, beside what is lit, over a part of
\* it, and with the flag register as the x and then as the y register
RomDrawFlag ==
    Prog(<<\h6F01, \hA000, \hD125, \h6104, \hD125, \h6102, \hD125, \hDF25,
           \hD1F2, \h1212>>)

\* a sprite whose rows run off the end of the memory
RomDrawEnd == Prog(<<\hAFFE, \hD015>>)

\* a return that no call precedes
RomReturnBare == Prog(<<\h00EE>>)

\* a program of len bytes: a jump to itself, and bytes that are not zero
Filler(len) ==
    [i \in 1..len |-> IF i = 1 THEN \h12 ELSE IF i = 2 THEN 0 ELSE (i % 251) + 1]

\* the longest program the length check of load accepts
LoadMax == MEM_SIZE - (FONTSET_SIZE + DISPLAY_SIZE + STACK_SIZE)

FillerLengths == {2, MEM_SIZE - PC_START, MEM_SIZE - PC_START + 1, LoadMax, LoadMax + 1}

AluOps == {0, 1, 2, 3, 4, 5, 6, 7, 14}
AluOperands == {<<0, 0>>, <<5, 10>>, <<10, 5>>, <<200, 100>>, <<129, 129>>, <<255, 1>>}
DrawOrigins == {<<0, 0>>, <<62, 31>>, <<61, 28>>, <<250, 5>>, <<5, 250>>}
WaitFollowers == {\h6355, \h7401, \hF40A, \h0000, \h1200, \hF315}

Roms ==
    {RomEndToEnd, RomTimers, RomFill, RomFillEnd, RomIndex, RomKeys, RomKeysNot,
     RomDraw, RomUnknown, RomSkips, RomJumpLow, RomRunOff, RomUnknownTicking,
     RomCarryKept, RomDrawFlag, RomDrawEnd, RomReturnBare}
    \cup {RomDrawAt(xy[1], xy[2]) : xy \in DrawOrigins}
    \cup {RomCalls(n) : n \in 1..MaxNesting}
    \cup {RomRecursion(depth) : depth \in {0, 1, MaxNesting - 2, MaxNesting - 1}}
    \cup {RomAlu(op, ab[1], ab[2]) : op \in AluOps, ab \in AluOperands}
    \cup {RomWait(follow) : follow \in WaitFollowers}
    \cup {Filler(len) : len \in FillerLengths}

Files ==
    {[readable |-> TRUE, bytes |-> rom] : rom \in Roms}
    \cup {[readable |-> FALSE, bytes |-> <<>>]}

\* the keys main.rs finds pressed and registers
KeyInputs == {3, 7}

-----------------------------------------------------------------------------
(* The run: main.rs makes the machine, loads the ROM, and then in its loop  *)
(* clears the keys, registers the pressed ones and emulates one step       *)

Init ==
    /\ chip8 = New
    /\ file \in Files
    /\ load_result = "none"
    /\ panicked = FALSE
    /\ last = [call |-> "new", got_key |-> None, opcode |-> None]
    /\ calls = <<>>
    /\ steps = 0

\* Chip8::load on the file f: what it returns, the machine it leaves
Loaded(c, f) ==
    IF ~f.readable
    THEN [chip8 |-> c, panicked |-> FALSE, result |-> "Err(io)"]
    ELSE IF DoesNotFit(f.bytes)
    THEN [chip8 |-> c, panicked |-> FALSE, result |-> "Err(capacity)"]
    ELSE LET copied == CopyProgram(c, f.bytes)
         IN  [chip8 |-> copied.chip8, panicked |-> copied.panicked,
              result |-> IF copied.panicked THEN "none" ELSE "Ok"]

Load ==
    /\ last.call = "new"
    /\ ~panicked
    /\ chip8' = Loaded(chip8, file).chip8
    /\ panicked' = Loaded(chip8, file).panicked
    /\ load_result' = Loaded(chip8, file).result
    /\ last' = [call |-> "load", got_key |-> None, opcode |-> None]
    /\ UNCHANGED <<file, calls, steps>>

\* main.rs goes on to its loop only when load returned Ok
Running == load_result = "Ok" /\ ~panicked

ClearKeys ==
    /\ Running
    /\ chip8' = ClearedKeys(chip8)
    /\ UNCHANGED <<file, load_result, panicked, last, calls, steps>>

RegisterKey ==
    /\ Running
    /\ \E k \in KeyInputs :
          /\ chip8' = RegisteredKey(chip8, k).chip8
          /\ panicked' = RegisteredKey(chip8, k).panicked
    /\ UNCHANGED <<file, load_result, last, calls, steps>>

\* the machine after the key poll and after the fetch, and the opcode fetched
AfterPoll == Polled(chip8)
Fetched == Advanced(AfterPoll)
FetchedOpcode == Opcode(AfterPoll)

\* the history of open calls after an emulate that fetched opcode (or None):
\* a 2nnn that stored its return address adds the address it was fetched at and
\* the stack pointer it found; a 00EE that found the stack pointer above 0
\* closes the innermost call
CallsAfter(opcode) ==
    IF opcode = None THEN calls
    ELSE IF Decode(opcode) = "2nnn" /\ AfterPoll.stack_pointer + 1 < STACK_LAYERS
    THEN Append(calls, [address |-> AfterPoll.program_counter,
                        pointer |-> AfterPoll.stack_pointer])
    ELSE IF Decode(opcode) = "00EE" /\ AfterPoll.stack_pointer # 0 /\ calls # <<>>
    THEN SubSeq(calls, 1, Len(calls) - 1)
    ELSE calls

\* emulate ends with the outcome result, having fetched opcode (or None)
Finish(result, opcode) ==
    /\ chip8' = result.chip8
    /\ panicked' = result.panicked
    /\ last' = [call |-> "emulate", got_key |-> GotKey(chip8), opcode |-> opcode]
    /\ calls' = CallsAfter(opcode)
    /\ steps' = IF steps < MaxSteps THEN steps + 1 ELSE steps
    /\ UNCHANGED <<file, load_result>>

\* a wait in which the timers tick
EmulateWaitingTicks ==
    /\ Running
    /\ StillWaiting(chip8)
    /\ Finish(Done([AfterPoll EXCEPT !.delay_timer = DecrementedTimer(@),
                                     !.sound_timer = DecrementedTimer(@)]), None)

\* lines 160-163: still no key pressed, return from the function
EmulateWaiting ==
    /\ Running
    /\ StillWaiting(chip8)
    /\ Finish(Done(AfterPoll), None)

\* lines 168-169: the fetch indexes the memory at program_counter and after it
EmulateFetchPanic ==
    /\ Running
    /\ ~StillWaiting(chip8)
    /\ ~CanFetch(AfterPoll)
    /\ Finish(Panic(AfterPoll), None)

\* emulate fetches an opcode that takes the arm called arm
Executes(arm) ==
    /\ Running
    /\ ~StillWaiting(chip8)
    /\ CanFetch(AfterPoll)
    /\ Decode(FetchedOpcode) = arm

Emulate00EE == Executes("00EE") /\ Finish(Return(Fetched), FetchedOpcode)
Emulate00E0 == Executes("00E0") /\ Finish(ClearedDisplay(Fetched), FetchedOpcode)
Emulate1nnn ==
    /\ Executes("1nnn")
    /\ \E overflow_checks \in BOOLEAN, tracing \in BOOLEAN :
          Finish(Jumped(Fetched, FetchedOpcode, overflow_checks, tracing), FetchedOpcode)
Emulate2nnn ==
    /\ Executes("2nnn")
    /\ \E overflow_checks \in BOOLEAN, tracing \in BOOLEAN :
          Finish(Called(Fetched, FetchedOpcode, overflow_checks, tracing), FetchedOpcode)
Emulate3xkk == Executes("3xkk") /\ Finish(SkippedIfEqual(Fetched, FetchedOpcode), FetchedOpcode)
Emulate4xkk == Executes("4xkk") /\ Finish(SkippedIfNotEqual(Fetched, FetchedOpcode), FetchedOpcode)
Emulate6xkk == Executes("6xkk") /\ Finish(Assigned(Fetched, FetchedOpcode), FetchedOpcode)
Emulate7xkk == Executes("7xkk") /\ Finish(AddedConstant(Fetched, FetchedOpcode), FetchedOpcode)
Emulate8xy0 == Executes("8xy0") /\ Finish(Moved(Fetched, FetchedOpcode), FetchedOpcode)
Emulate8xy1 == Executes("8xy1") /\ Finish(Ored(Fetched, FetchedOpcode), FetchedOpcode)
Emulate8xy2 == Executes("8xy2") /\ Finish(Anded(Fetched, FetchedOpcode), FetchedOpcode)
Emulate8xy3 == Executes("8xy3") /\ Finish(Xored(Fetched, FetchedOpcode), FetchedOpcode)
Emulate8xy4 == Executes("8xy4") /\ Finish(AddedRegister(Fetched, FetchedOpcode), FetchedOpcode)
Emulate8xy5 ==
    /\ Executes("8xy5")
    /\ \E overflow_checks \in BOOLEAN :
          Finish(SubtractedRegister(Fetched, FetchedOpcode, overflow_checks), FetchedOpcode)
Emulate8xy6 == Executes("8xy6") /\ Finish(ShiftedRight(Fetched, FetchedOpcode), FetchedOpcode)
Emulate8xyE == Executes("8xyE") /\ Finish(ShiftedLeft(Fetched, FetchedOpcode), FetchedOpcode)
EmulateAnnn == Executes("Annn") /\ Finish(IndexSet(Fetched, FetchedOpcode), FetchedOpcode)
EmulateDxyn ==
    /\ Executes("Dxyn")
    /\ \E overflow_checks \in BOOLEAN :
          Finish(Drawn(Fetched, FetchedOpcode, overflow_checks), FetchedOpcode)
EmulateEx9E == Executes("Ex9E") /\ Finish(SkippedIfKey(Fetched, FetchedOpcode), FetchedOpcode)
EmulateExA1 == Executes("ExA1") /\ Finish(SkippedIfNoKey(Fetched, FetchedOpcode), FetchedOpcode)
EmulateFx07 == Executes("Fx07") /\ Finish(DelayRead(Fetched, FetchedOpcode), FetchedOpcode)
EmulateFx0A == Executes("Fx0A") /\ Finish(KeyAwaited(Fetched, FetchedOpcode), FetchedOpcode)
EmulateFx15 == Executes("Fx15") /\ Finish(DelaySet(Fetched, FetchedOpcode), FetchedOpcode)
EmulateFx18 == Executes("Fx18") /\ Finish(SoundSet(Fetched, FetchedOpcode), FetchedOpcode)
EmulateFx1E ==
    /\ Executes("Fx1E")
    /\ \E overflow_checks \in BOOLEAN :
          Finish(IndexAdded(Fetched, FetchedOpcode, overflow_checks), FetchedOpcode)
EmulateFx29 == Executes("Fx29") /\ Finish(FontAddressed(Fetched, FetchedOpcode), FetchedOpcode)
EmulateFx65 ==
    /\ Executes("Fx65")
    /\ \E overflow_checks \in BOOLEAN :
          Finish(Filled(Fetched, FetchedOpcode, overflow_checks), FetchedOpcode)

\* the warn! arms: the opcode has no effect of its own
\* an opcode that no arm takes and that the program counter stays on
EmulateUnknownStuck == Executes("unknown") /\ Finish(Done(AfterPoll), FetchedOpcode)

EmulateUnknown == Executes("unknown") /\ Finish(Done(Fetched), FetchedOpcode)

Emulate ==
    \/ EmulateWaiting
    \/ EmulateFetchPanic
    \/ Emulate00EE
    \/ Emulate00E0
    \/ Emulate1nnn
    \/ Emulate2nnn
    \/ Emulate3xkk
    \/ Emulate4xkk
    \/ Emulate6xkk
    \/ Emulate7xkk
    \/ Emulate8xy0
    \/ Emulate8xy1
    \/ Emulate8xy2
    \/ Emulate8xy3
    \/ Emulate8xy4
    \/ Emulate8xy5
    \/ Emulate8xy6
    \/ Emulate8xyE
    \/ EmulateAnnn
    \/ EmulateDxyn
    \/ EmulateEx9E
    \/ EmulateExA1
    \/ EmulateFx07
    \/ EmulateFx0A
    \/ EmulateFx15
    \/ EmulateFx18
    \/ EmulateFx1E
    \/ EmulateFx29
    \/ EmulateFx65
    \/ EmulateUnknown

Next == Load \/ ClearKeys \/ RegisterKey \/ Emulate

Spec == Init /\ [][Next]_vars

\* an emulate called while the machine waits and a key is pressed
KeyStep == chip8.wait_for_key /\ PressedKeys(chip8) # {} /\ Emulate

\* The run loop of main.rs calls emulate once in every iteration, right after
\* it registered the keys that are down (lines 132-158): a key that is down
\* again and again while the machine waits is pressed at an emulate call.
\* This is the strong fairness of KeyStep, SF_vars(KeyStep), written out:
\* KeyStep is enabled, and changes the state, exactly when the machine waits
\* with a key pressed.
SpecLive ==
    /\ Spec
    /\ \/ <>[]~(chip8.wait_for_key /\ PressedKeys(chip8) # {})
       \/ []<><<KeyStep>>_vars

-----------------------------------------------------------------------------
(* Properties *)

\* the step is an emulate that found the machine waiting with a key pressed
KeyArrives == Emulate /\ chip8.wait_for_key /\ PressedKeys(chip8) # {}

\* the step is an emulate that fetches an opcode
Fetches == Emulate /\ ~Polled(chip8).wait_for_key /\ CanFetch(AfterPoll)

\* C1: every program that the length check of load accepts (at most
\* 4096 - 80 - 256 - 96 = 3664 bytes) is loaded: load returns Ok, without a
\* panic, and memory[512 + i] is byte i of the program.
C1_AcceptedProgramIsLoaded ==
    (last.call # "new" /\ file.readable /\ Len(file.bytes) <= LoadMax)
        => /\ load_result = "Ok"
           /\ \A i \in 0..(Len(file.bytes) - 1) :
                 chip8.memory[PC_START + i] = file.bytes[i + 1]

\* C2, as claimed: an emulate that finds the machine waiting with a key pressed
\* writes the key to the waiting register, ends the wait and returns without
\* a fetch: program counter and timers as before, no instruction applied.
C2_KeyStepFetchesNothing ==
    [][KeyArrives =>
          /\ chip8' = [chip8 EXCEPT
                          !.wait_for_key = FALSE,
                          !.register[chip8.wait_for_key_register] =
                              Min(PressedKeys(chip8))]
          /\ ~panicked']_vars

\* the arms of the match that set the program counter or add to it
ControlFlow == {"00EE", "1nnn", "2nnn", "3xkk", "4xkk", "Ex9E", "ExA1"}

\* C2, amended: an emulate that finds the machine waiting with a key pressed
\* gets the lowest pressed key and goes on, in the same call, to fetch the
\* opcode at the program counter: the program counter passes it (by 2, where
\* the instruction does not set it), each timer ticks (floored at 0) where the
\* instruction does not set it, and the wait is over unless the instruction
\* is another Fx0A.
C2_KeyStepGoesOnToFetch ==
    [][(KeyArrives /\ CanFetch(chip8)) =>
          LET arm == Decode(Opcode(chip8))
          IN  /\ last'.got_key = Min(PressedKeys(chip8))
              /\ last'.opcode = Opcode(chip8)
              /\ arm \notin ControlFlow
                    => chip8'.program_counter = chip8.program_counter + 2
              /\ arm # "Fx15"
                    => chip8'.delay_timer = DecrementedTimer(chip8.delay_timer)
              /\ arm # "Fx18"
                    => chip8'.sound_timer = DecrementedTimer(chip8.sound_timer)
              /\ arm # "Fx0A" => ~chip8'.wait_for_key
              /\ arm = "6xkk"
                    => chip8'.register[RegX(Opcode(chip8))] =
                           Constant(Opcode(chip8))]_vars

\* C2 witness: the key 7 ended the wait on V2 and the same call went on to the
\* 7101 after the F20A: V1 went from 1 to 2, the sound timer from 1 to 0, and
\* the program counter is past the 7101.
C2_Witness ==
    /\ last = [call |-> "emulate", got_key |-> 7, opcode |-> \h7101]
    /\ chip8.register[2] = 7
    /\ chip8.register[1] = 2
    /\ chip8.sound_timer = 0
    /\ chip8.program_counter = PC_START + 12
    /\ ~chip8.wait_for_key

\* C3: an emulate that finds the machine waiting with no key pressed changes
\* nothing: the whole machine is as before, still waiting on the same
\* register, and nothing has panicked.
C3_WaitingStepIsNoOp ==
    [][(Emulate /\ chip8.wait_for_key /\ PressedKeys(chip8) = {})
          => (chip8' = chip8 /\ chip8'.wait_for_key /\ panicked' = panicked)]_vars

\* C3 witness: emulate has returned from the wait with no key and no fetch,
\* the program counter after the F30A, a timer still running.
C3_Witness ==
    /\ last = [call |-> "emulate", got_key |-> None, opcode |-> None]
    /\ ~panicked
    /\ chip8.wait_for_key
    /\ chip8.wait_for_key_register = 2
    /\ PressedKeys(chip8) = {}
    /\ chip8.sound_timer = 1

\* C4, as claimed: at the end of the emulate that finds the machine waiting
\* with keys pressed, the waiting register holds the lowest pressed key,
\* whatever instruction follows the Fx0A.
C4_LowestKeyInRegister ==
    [][KeyArrives =>
          chip8'.register[chip8.wait_for_key_register] =
              Min(PressedKeys(chip8))]_vars

\* the opcode takes an arm that may write register r
WritesRegister(opcode, r) ==
    LET arm == Decode(opcode)
    IN  \/ arm \in {"6xkk", "7xkk", "8xy0", "8xy1", "8xy2", "8xy3", "Fx07"}
           /\ RegX(opcode) = r
        \/ arm \in {"8xy4", "8xy5", "8xy6", "8xyE"}
           /\ (RegX(opcode) = r \/ r = 15)
        \/ arm = "Dxyn" /\ r = 15
        \/ arm = "Fx65" /\ r < RegX(opcode)

\* C4, amended: at the end of that emulate the waiting register holds the
\* lowest pressed key provided the instruction after the Fx0A, which the same
\* call executes, does not write that register.
C4_LowestKeyUnlessOverwritten ==
    [][(KeyArrives
          /\ (CanFetch(chip8) =>
                 ~WritesRegister(Opcode(chip8), chip8.wait_for_key_register)))
          => chip8'.register[chip8.wait_for_key_register] =
                 Min(PressedKeys(chip8))]_vars

\* C4 witness: keys 3 and 7 were both pressed when the wait on V3 ended, and
\* V3 holds 3 after the call, which went on to an opcode that leaves V3 alone.
C4_Witness ==
    /\ last = [call |-> "emulate", got_key |-> 3, opcode |-> \h0000]
    /\ PressedKeys(chip8) = {3, 7}
    /\ chip8.register[3] = 3

\* C5: the stack pointer is in 0..15 in every state.
C5_StackPointerInRange == chip8.stack_pointer \in 0..(STACK_LAYERS - 1)

\* C6: a 2nnn that finds the stack pointer at 15 completes: nothing panics and
\* the program counter is nnn after it.
C6_DeepCallCompletes ==
    [][(Emulate2nnn /\ AfterPoll.stack_pointer = STACK_LAYERS - 1)
          => /\ ~panicked'
             /\ chip8'.program_counter = Address(FetchedOpcode)]_vars

\* C7: a 00EE that finds open calls, the innermost a 2nnn fetched at address a
\* with the stack pointer s, finds the stack pointer at s + 1 and leaves the
\* program counter at a + 2 and the stack pointer at s.
C7_ReturnFollowsCall ==
    [][(Emulate00EE /\ calls # <<>>) =>
          LET call == calls[Len(calls)]
          IN  /\ call.pointer < STACK_LAYERS - 1
              /\ AfterPoll.stack_pointer = call.pointer + 1
              /\ chip8'.program_counter = call.address + 2
              /\ chip8'.stack_pointer = call.pointer
              /\ ~panicked']_vars

\* C7 witness: the return from the fifteenth level of the recursion at 0x206
\* has landed after the 2206 at 0x20E, with fourteen calls still open.
C7_Witness ==
    /\ last.call = "emulate"
    /\ last.opcode = \h00EE
    /\ chip8.stack_pointer = STACK_LAYERS - 2
    /\ Len(calls) = STACK_LAYERS - 2
    /\ chip8.program_counter = \h210

\* C8: 8xy5 with a = register[x] and b = register[y] never panics and leaves
\* register[x] = (a - b) mod 256 and, for x other than 15, the flag register
\* 0 when b > a and 1 otherwise.
C8_SubtractionWraps ==
    [][Emulate8xy5 =>
          LET x == RegX(FetchedOpcode)
              a == AfterPoll.register[x]
              b == AfterPoll.register[RegY(FetchedOpcode)]
          IN  x # 15 =>
                 /\ ~panicked'
                 /\ chip8'.register[x] = (a + U8 - b) % U8
                 /\ chip8'.register[15] = IF b > a THEN 0 ELSE 1]_vars

\* C9: after an Fx65 whose reads are inside the memory, register[i] is
\* memory[index_register + i] for every i in 0..x, x included.
C9_FillIncludesX ==
    [][(EmulateFx65
          /\ AfterPoll.index_register + RegX(FetchedOpcode) < MEM_SIZE)
          => \A i \in 0..RegX(FetchedOpcode) :
                chip8'.register[i] =
                    chip8.memory[AfterPoll.index_register + i]]_vars

\* C10: an emulate that fetches an opcode other than Fx15 leaves the delay
\* timer at max(old - 1, 0), and one that fetches an opcode other than Fx18
\* leaves the sound timer at max(old - 1, 0).
C10_TimersTickToZero ==
    [][Fetches =>
          /\ Decode(FetchedOpcode) # "Fx15"
                => chip8'.delay_timer =
                       (IF chip8.delay_timer >= 1 THEN chip8.delay_timer - 1 ELSE 0)
          /\ Decode(FetchedOpcode) # "Fx18"
                => chip8'.sound_timer =
                       (IF chip8.sound_timer >= 1 THEN chip8.sound_timer - 1 ELSE 0)]_vars

\* C10 witness: two fetches after the timers were set to 3 one after the
\* other, the delay timer is at 1 and the sound timer at 2.
C10_Witness ==
    /\ last.call = "emulate"
    /\ last.opcode = \hF107
    /\ chip8.delay_timer = 1
    /\ chip8.sound_timer = 2
    /\ chip8.register[1] = 1

\* what a step that only fetches leaves of machine c: the program counter
\* past the opcode, each timer one lower unless it was 0, the rest as in c
OnlyFetched(c) ==
    [c EXCEPT !.program_counter = @ + 2,
              !.delay_timer = IF @ > 0 THEN @ - 1 ELSE 0,
              !.sound_timer = IF @ > 0 THEN @ - 1 ELSE 0]

\* C11, as claimed: every emulate that fetches an opcode with no arm succeeds
\* and leaves the machine as it found it but for the program counter (+ 2)
\* and the timers (- 1 unless 0): registers and wait-state included.
C11_UnknownOpcodeOnlyFetches ==
    [][(Fetches /\ Decode(FetchedOpcode) = "unknown")
          => (chip8' = OnlyFetched(chip8) /\ ~panicked')]_vars

\* C11, amended: an emulate that is not called in the wait-state and fetches
\* an opcode with no arm succeeds and leaves the machine as it found it but
\* for the program counter (+ 2) and the timers (- 1 unless 0); one that is
\* called in the wait-state with a key pressed and goes on to such an opcode
\* has, besides, written the key to the waiting register and ended the wait.
C11_UnknownOpcodeAfterPoll ==
    [][(Fetches /\ Decode(FetchedOpcode) = "unknown")
          => /\ ~panicked'
             /\ ~chip8.wait_for_key => chip8' = OnlyFetched(chip8)
             /\ chip8.wait_for_key =>
                   chip8' = OnlyFetched(
                       [chip8 EXCEPT
                           !.wait_for_key = FALSE,
                           !.register[chip8.wait_for_key_register] =
                               Min(PressedKeys(chip8))])]_vars

\* C11 witness: the 5120 after F015 and F018 has been fetched: the delay timer
\* went from 1 to 0, the sound timer from 2 to 1, V0 is still 2.
C11_Witness ==
    /\ last.call = "emulate"
    /\ last.opcode = \h5120
    /\ ~panicked
    /\ chip8.program_counter = PC_START + 8
    /\ chip8.delay_timer = 0
    /\ chip8.sound_timer = 1
    /\ chip8.register[0] = 2

\* C12: 8xy4 with x other than 15 leaves register[x] = (register[x] +
\* register[y]) mod 256, the flag register at 1 when the sum is above 255 and
\* as it was when the sum is at most 255, and does not panic.
C12_AdditionKeepsFlag ==
    [][Emulate8xy4 =>
          LET x == RegX(FetchedOpcode)
              sum == AfterPoll.register[x] + AfterPoll.register[RegY(FetchedOpcode)]
          IN  x # 15 =>
                 /\ ~panicked'
                 /\ chip8'.register[x] = sum % 256
                 /\ chip8'.register[15] =
                       (IF sum > 255 THEN 1 ELSE AfterPoll.register[15])]_vars

\* C12 witness: the second 8014 has added 100 to 44 with the flag set by the
\* first: V0 is 144 and the flag is still 1.
C12_Witness ==
    /\ last.call = "emulate"
    /\ last.opcode = \h8014
    /\ chip8.register[0] = 144
    /\ chip8.register[1] = 100
    /\ chip8.register[15] = 1

\* C13: 7xkk does not panic and leaves register[x] = (register[x] + kk) mod
\* 256 and, for x other than 15, the flag register as it was.
C13_ConstantAdditionWraps ==
    [][Emulate7xkk =>
          LET x == RegX(FetchedOpcode)
              kk == FetchedOpcode % 256
          IN  /\ ~panicked'
              /\ chip8'.register[x] = (AfterPoll.register[x] + kk) % 256
              /\ x # 15 => chip8'.register[15] = AfterPoll.register[15]]_vars

\* C13 witness: 70FF has been added to V0 = 14 in the recursion: V0 is 13.
C13_Witness ==
    /\ last.call = "emulate"
    /\ last.opcode = \h70FF
    /\ chip8.register[0] = MaxNesting - 3
    /\ ~panicked

\* the coordinates a Dxyn fetched as opcode on machine c draws at: the
\* registers x and y as the draw reads them, the flag register already 0
DrawAtX(c, opcode) == IF RegX(opcode) = 15 THEN 0 ELSE c.register[RegX(opcode)]
DrawAtY(c, opcode) == IF RegY(opcode) = 15 THEN 0 ELSE c.register[RegY(opcode)]

\* the cells of the screen inside the 8 columns and n rows of that draw
DrawWindow(c, opcode) ==
    {cell \in (0..(XPX - 1)) \X (0..(YPX - 1)) :
        /\ cell[1] >= DrawAtX(c, opcode) /\ cell[1] < DrawAtX(c, opcode) + 8
        /\ cell[2] >= DrawAtY(c, opcode)
        /\ cell[2] < DrawAtY(c, opcode) + (opcode % 16)}

\* the bit of the sprite at index_register that falls on cell is set
SpriteBit(c, opcode, cell) ==
    LET byte == c.memory[c.index_register + (cell[2] - DrawAtY(c, opcode))]
        k == cell[1] - DrawAtX(c, opcode)
    IN  (byte \div (2 ^ (7 - k))) % 2 = 1

\* C14: a Dxyn changes no cell of the display outside columns [X, X + 8) and
\* rows [Y, Y + n) cut to the 64 x 32 screen, X and Y the registers x and y as
\* the draw reads them; the display keeps its 64 x 32 cells of 0 and 1, and
\* the draw does not panic when the n sprite bytes are inside the memory.
C14_DrawIsClipped ==
    [][EmulateDxyn =>
          /\ \A cell \in ((0..(XPX - 1)) \X (0..(YPX - 1)))
                      \ DrawWindow(AfterPoll, FetchedOpcode) :
                chip8'.display[cell[1]][cell[2]] = chip8.display[cell[1]][cell[2]]
          /\ chip8'.display \in [0..(XPX - 1) -> [0..(YPX - 1) -> {0, 1}]]
          /\ chip8.index_register + (FetchedOpcode % 16) <= MEM_SIZE
                => ~panicked']_vars

\* C14 witness: the glyph 0 has been drawn at (62, 31): of its 4 columns and 5
\* rows only the cells (62, 31) and (63, 31) are lit; column 0 and row 0 are
\* dark.
C14_Witness ==
    /\ last.call = "emulate"
    /\ last.opcode = \hD015
    /\ chip8.register[0] = 62
    /\ chip8.register[1] = 31
    /\ chip8.display[62][31] = 1
    /\ chip8.display[63][31] = 1
    /\ \A i \in 0..(YPX - 1) : chip8.display[0][i] = 0 /\ chip8.display[1][i] = 0
    /\ \A j \in 0..(XPX - 1) : chip8.display[j][0] = 0
    /\ ~panicked

\* C15: after a Dxyn that completes, the flag register is 1 if a set bit of
\* the sprite fell on a cell of the screen that was 1 before the draw, and 0
\* if none did, whatever the flag register was before.
C15_FlagIsCollision ==
    [][(EmulateDxyn /\ ~panicked') =>
          chip8'.register[15] =
              (IF \E cell \in DrawWindow(AfterPoll, FetchedOpcode) :
                     /\ SpriteBit(chip8, FetchedOpcode, cell)
                     /\ chip8.display[cell[1]][cell[2]] = 1
               THEN 1 ELSE 0)]_vars

\* C15 witness: the glyph 0 was drawn at (0, 0) with the flag at
\* 1 (flag 0 after it), at (4, 0) beside them, and now at (2, 0) over the lit
\* cells of row 0: those are dark, (2, 1) is lit, the flag is 1.
C15_Witness ==
    /\ last.call = "emulate"
    /\ last.opcode = \hD125
    /\ chip8.program_counter = PC_START + 14
    /\ chip8.register[15] = 1
    /\ chip8.display[2][0] = 0
    /\ chip8.display[5][0] = 0
    /\ chip8.display[2][1] = 1
    /\ chip8.display[0][0] = 1

\* C16, as claimed: the Dxyn that has just completed, executed once more on
\* the machine it left, completes, gives back the display as it was before
\* the first draw, and leaves the flag register at 1 if a set bit of the
\* sprite falls on the screen.
C16_DrawTwiceRestores ==
    [][(EmulateDxyn /\ ~panicked') =>
          \A overflow_checks \in BOOLEAN :
             LET again == Drawn(chip8', FetchedOpcode, overflow_checks)
             IN  /\ ~again.panicked
                 /\ again.chip8.display = chip8.display
                 /\ (\E cell \in DrawWindow(AfterPoll, FetchedOpcode) :
                        SpriteBit(chip8, FetchedOpcode, cell))
                       => again.chip8.register[15] = 1]_vars

\* C16, amended: the Dxyn that has just completed, executed once more on the
\* machine it left, completes and gives back the display as it was before
\* the first draw; the flag register after the second draw is 1 if a set bit
\* of the sprite falls on a cell of the screen that was 0 before the first
\* draw, and 0 if every such cell was 1 (the first draw put them all out).
C16_DrawTwiceRestoresDisplay ==
    [][(EmulateDxyn /\ ~panicked') =>
          \A overflow_checks \in BOOLEAN :
             LET again == Drawn(chip8', FetchedOpcode, overflow_checks)
             IN  /\ ~again.panicked
                 /\ again.chip8.display = chip8.display
                 /\ again.chip8.register[15] =
                       (IF \E cell \in DrawWindow(AfterPoll, FetchedOpcode) :
                              /\ SpriteBit(chip8, FetchedOpcode, cell)
                              /\ chip8.display[cell[1]][cell[2]] = 0
                        THEN 1 ELSE 0)]_vars

\* C16 witness: the second D015 at (60, 30) has run: the display is dark
\* again and the flag register is 1.
C16_Witness ==
    /\ last.call = "emulate"
    /\ last.opcode = \hD015
    /\ chip8.register[0] = 60
    /\ chip8.register[1] = 30
    /\ chip8.program_counter = PC_START + 10
    /\ chip8.register[15] = 1
    /\ \A j \in 0..(XPX - 1), i \in 0..(YPX - 1) : chip8.display[j][i] = 0

\* C17: in every state, whatever was loaded and executed, the first 80
\* bytes of the memory are the font table.
C17_FontStays ==
    \A a \in 0..(FONTSET_SIZE - 1) : chip8.memory[a] = CHIP8_FONTSET[a + 1]

\* C17 witness: the longest program that load can store (3584 bytes) is in
\* the memory up to its last byte, and emulate has run on it.
C17_Witness ==
    /\ load_result = "Ok"
    /\ Len(file.bytes) = MEM_SIZE - PC_START
    /\ chip8.memory[MEM_SIZE - 1] = file.bytes[MEM_SIZE - PC_START]
    /\ chip8.memory[MEM_SIZE - 1] # 0
    /\ last.call = "emulate"

\* C18: once load has been called on a readable file longer than the 3664
\* bytes its length check accepts, it has returned the capacity error without
\* a panic, and the machine is as new made it.
C18_LongProgramRejected ==
    (last.call # "new" /\ file.readable /\ Len(file.bytes) > LoadMax)
        => /\ load_result = "Err(capacity)"
           /\ ~panicked
           /\ chip8 = New

\* C18 witness: load has rejected the file of 3665 bytes.
C18_Witness ==
    /\ last.call = "load"
    /\ Len(file.bytes) = LoadMax + 1
    /\ load_result = "Err(capacity)"
    /\ chip8.memory[PC_START] = 0

\* C19: slot 0 of the stack is 0 in every state, and a 00EE that finds the
\* stack pointer at 0 does not panic, leaves the program counter at 0 and
\* the stack pointer at 0.
C19_BareReturnJumpsToZero ==
    /\ [](chip8.stack[0] = 0)
    /\ [][(Emulate00EE /\ AfterPoll.stack_pointer = 0)
             => /\ ~panicked'
                /\ chip8'.program_counter = 0
                /\ chip8'.stack_pointer = 0]_vars

\* C19 witness: the 00EE at 0x200, with no call open, has left the program
\* counter at 0.
C19_Witness ==
    /\ last.call = "emulate"
    /\ last.opcode = \h00EE
    /\ calls = <<>>
    /\ chip8.program_counter = 0
    /\ chip8.stack_pointer = 0
    /\ ~panicked

\* C20: no emulate changes the 16 key states, whether it returns from the
\* wait, takes a key for Fx0A, tests a key or panics.
C20_EmulateKeepsKeys ==
    [][Emulate => chip8'.key = chip8.key]_vars

\* C20 witness: the emulate that took key 3 for the wait on V3 has returned,
\* and the keys 3 and 7 are still pressed.
C20_Witness ==
    /\ last.call = "emulate"
    /\ last.got_key = 3
    /\ chip8.register[3] = 3
    /\ ~chip8.wait_for_key
    /\ chip8.key[3] = 1
    /\ chip8.key[7] = 1

\* C21, as claimed: on the ROM 60 05 70 0A, after two emulate calls
\* register[0] is 15, and after three the program counter is 516.
C21_EndToEnd516 ==
    (file.bytes = RomEndToEnd /\ last.call = "emulate")
        => /\ steps = 2 => chip8.register[0] = 15
           /\ steps = 3 => chip8.program_counter = 516

\* C21, amended: on the ROM 60 05 70 0A, after two emulate calls register[0]
\* is 15 and the program counter is 516; the third call fetches the 0000
\* after the program, succeeds and leaves the program counter at 518 and
\* register[0] at 15.
C21_EndToEnd518 ==
    (file.bytes = RomEndToEnd /\ last.call = "emulate")
        => /\ steps = 1 => (chip8.register[0] = 5 /\ chip8.program_counter = 514)
           /\ steps = 2 => (chip8.register[0] = 15 /\ chip8.program_counter = 516)
           /\ steps = 3 => /\ chip8.register[0] = 15
                           /\ chip8.program_counter = 518
                           /\ last.opcode = 0
                           /\ ~panicked

\* C21 witness: the third emulate call on 60 05 70 0A has returned.
C21_Witness ==
    /\ file.bytes = RomEndToEnd
    /\ steps = 3
    /\ last.call = "emulate"
    /\ chip8.register[0] = 15
    /\ chip8.program_counter = 518

\* the machine starts to wait only in an emulate that executes Fx0A, which
\* leaves the program counter after the Fx0A and waits on its register x
WaitStartsAtFx0A ==
    (~chip8.wait_for_key /\ chip8'.wait_for_key)
        => /\ EmulateFx0A
           /\ chip8'.program_counter = chip8.program_counter + 2
           /\ chip8'.wait_for_key_register = RegX(Opcode(chip8))

\* the machine stops waiting only in an emulate called with a key pressed
WaitEndsAtKey ==
    (chip8.wait_for_key /\ ~chip8'.wait_for_key) => KeyArrives

\* C22, as claimed: the machine starts to wait only in a step that executes
\* Fx0A (and advances the program counter by 2), stops waiting only in a
\* step called with a key pressed, and from a waiting state to the next
\* waiting state the waiting register is the same.
C22_WaitRegisterFixed ==
    [][/\ WaitStartsAtFx0A
       /\ WaitEndsAtKey
       /\ (chip8.wait_for_key /\ chip8'.wait_for_key)
             => chip8'.wait_for_key_register = chip8.wait_for_key_register]_vars

\* C22, amended: the machine starts to wait only in a step that executes
\* Fx0A (and advances the program counter by 2) and stops waiting only in a
\* step called with a key pressed; from a waiting state to the next waiting
\* state the waiting register is the same unless the step was called with a
\* key pressed, took it, and went on in the same call to another Fx0A: then
\* the machine waits on the register of that Fx0A.
C22_WaitRegisterUntilKey ==
    [][/\ WaitStartsAtFx0A
       /\ WaitEndsAtKey
       /\ (chip8.wait_for_key /\ chip8'.wait_for_key)
             => \/ /\ ~KeyArrives
                   /\ chip8'.wait_for_key_register = chip8.wait_for_key_register
                \/ /\ KeyArrives
                   /\ EmulateFx0A
                   /\ chip8'.wait_for_key_register = RegX(Opcode(chip8))
                   /\ chip8'.program_counter = chip8.program_counter + 2]_vars

\* C22 witness: the wait on V3 took the key 3 and the same call executed the
\* F40A after it: the machine waits again, now on V4.
C22_Witness ==
    /\ last = [call |-> "emulate", got_key |-> 3, opcode |-> \hF40A]
    /\ chip8.wait_for_key
    /\ chip8.wait_for_key_register = 4
    /\ chip8.register[3] = 3
    /\ chip8.program_counter = PC_START + 4

\* while the machine waits, every step but an emulate called with a key
\* pressed leaves it waiting, the program counter where it was
WaitHolds ==
    (chip8.wait_for_key /\ ~KeyArrives)
        => /\ chip8'.wait_for_key
           /\ chip8'.program_counter = chip8.program_counter

\* if keys are pressed again and again, a waiting machine comes to run
WaitEnds ==
    ([]<>(PressedKeys(chip8) # {}))
        => (chip8.wait_for_key ~> ~chip8.wait_for_key)

\* C23, as claimed: the emulate that finds the machine waiting with a key
\* pressed leaves it running; with no such emulate the machine stays waiting
\* and the program counter does not move; and with the loop stepping and
\* keys pressed again and again a waiting machine comes to run.
C23_KeyStepLeavesRunning ==
    /\ [][KeyArrives => ~chip8'.wait_for_key]_vars
    /\ [][WaitHolds]_vars
    /\ WaitEnds

\* C23, amended: the emulate that finds the machine waiting with a key
\* pressed takes the lowest key and leaves the machine running unless the
\* same call goes on to another Fx0A; with no such emulate the machine stays
\* waiting and the program counter does not move; and with the loop stepping
\* and keys pressed again and again a waiting machine comes to run.
C23_KeyStepEndsThisWait ==
    /\ [][KeyArrives => /\ last'.got_key = Min(PressedKeys(chip8))
                        /\ ~chip8'.wait_for_key \/ EmulateFx0A]_vars
    /\ [][WaitHolds]_vars
    /\ WaitEnds

\* C23 witness: the wait on V3 of F30A 1200 ended with key 7, and the same
\* call executed the jump back to 0x200: the machine runs.
C23_Witness ==
    /\ last = [call |-> "emulate", got_key |-> 7, opcode |-> \h1200]
    /\ ~chip8.wait_for_key
    /\ chip8.register[3] = 7
    /\ chip8.program_counter = PC_START
    /\ ~panicked

\* C24: Fx15 leaves the delay timer equal to register[x], Fx18 the sound
\* timer equal to register[x], and Fx07 leaves in register[x] the delay timer
\* it found less one, or 0 if it found 0: the tick comes before the effect.
C24_TickBeforeEffect ==
    [][/\ EmulateFx15 =>
             chip8'.delay_timer = AfterPoll.register[RegX(FetchedOpcode)]
       /\ EmulateFx18 =>
             chip8'.sound_timer = AfterPoll.register[RegX(FetchedOpcode)]
       /\ EmulateFx07 =>
             /\ chip8'.register[RegX(FetchedOpcode)] =
                   (IF chip8.delay_timer >= 1 THEN chip8.delay_timer - 1 ELSE 0)
             /\ chip8'.delay_timer = chip8'.register[RegX(FetchedOpcode)]]_vars

\* C24 witness: F018 has run after 6003 and F015: the sound timer is 3, as
\* V0, and the delay timer set to 3 one step before is at 2.
C24_Witness ==
    /\ last.call = "emulate"
    /\ last.opcode = \hF018
    /\ chip8.register[0] = 3
    /\ chip8.sound_timer = 3
    /\ chip8.delay_timer = 2

\* C25: whenever main may call emulate and the call will fetch, both bytes
\* of the opcode are inside the memory: program_counter + 1 <= 4095.
C25_FetchInsideMemory ==
    (Running /\ ~StillWaiting(chip8)) => chip8.program_counter + 1 <= MEM_SIZE - 1

\* C26: no Dxyn and no Fx65 panics: every read of the memory at the index
\* register plus an offset is at an address from 0 to 4095.
C26_IndexedReadsInsideMemory ==
    [][(EmulateDxyn \/ EmulateFx65) => ~panicked']_vars

\* C27: Ex9E and ExA1 complete without a panic for every value of
\* register[x], the program counter after the next instruction or on it.
C27_KeyTestCompletes ==
    [][(EmulateEx9E \/ EmulateExA1) =>
          /\ ~panicked'
          /\ chip8'.program_counter \in
                {chip8.program_counter + 2, chip8.program_counter + 4}]_vars

\* C28: a Dxyn that completes with register 15 as its x (its y) operand
\* draws the sprite from column (row) 0, whatever register 15 held: the cells
\* where set bits of the sprite fall on the screen are flipped, all others
\* are as before.
C28_FlagOperandDrawsAtZero ==
    [][(EmulateDxyn /\ ~panicked'
          /\ (RegX(FetchedOpcode) = 15 \/ RegY(FetchedOpcode) = 15)) =>
          LET X == IF RegX(FetchedOpcode) = 15 THEN 0
                   ELSE chip8.register[RegX(FetchedOpcode)]
              Y == IF RegY(FetchedOpcode) = 15 THEN 0
                   ELSE chip8.register[RegY(FetchedOpcode)]
              n == FetchedOpcode % 16
              Hit(j, i) ==
                  /\ j >= X /\ j < X + 8
                  /\ i >= Y /\ i < Y + n
                  /\ (chip8.memory[chip8.index_register + (i - Y)]
                         \div (2 ^ (7 - (j - X)))) % 2 = 1
          IN  \A j \in 0..(XPX - 1), i \in 0..(YPX - 1) :
                 chip8'.display[j][i] =
                     (IF Hit(j, i) THEN 1 - chip8.display[j][i]
                      ELSE chip8.display[j][i])]_vars

\* C28 witness: D1F2 has run with V1 = 2 and the flag register at 1 before
\* it: the first two rows of the glyph were drawn on rows 0 and 1 from
\* column 2, and row 2 is as the draws before left it.
C28_Witness ==
    /\ last.call = "emulate"
    /\ last.opcode = \hD1F2
    /\ chip8.register[1] = 2
    /\ chip8.register[15] = 1
    /\ chip8.display[2][0] = 0 /\ chip8.display[4][0] = 1 /\ chip8.display[5][0] = 1
    /\ chip8.display[2][1] = 0 /\ chip8.display[4][1] = 1 /\ chip8.display[5][1] = 0
    /\ chip8.display[2][2] = 1 /\ chip8.display[5][2] = 1

====
